---------------------------- MODULE Spec2Model ----------------------------
(***************************************************************************)
(* A model of fn.cpp: the SignalProcessor pipeline (movingAverage,         *)
(* findPeaks, processSignal, processAllSignals) and the ImageProcessor     *)
(* orchestration (processImage, processAllImages, batchProcess,            *)
(* analyzeImages).                                                         *)
(*                                                                         *)
(* Numbers.  A double is a record [n |-> numerator, d |-> denominator]     *)
(* with d > 0, or NaN, written [n |-> 0, d |-> 0] (the result of 0.0/0).   *)
(* Sums of the small integers used here are exact in a double and the      *)
(* quotient sum/count is correctly rounded, so two means compare in the    *)
(* program exactly as the two rationals compare here.                      *)
(* Indices are the source's 0-based indices; a TLA+ sequence s holds the   *)
(* source's s[i] at s[i + 1].                                              *)
(***************************************************************************)
EXTENDS Integers, Sequences, FiniteSets

VARIABLES
    \* ---- SignalProcessor members (lines 211-218)
    signal_files, window_size, threshold,
    \* ---- processAllSignals: loop index, position, calls made, files written
    sig_i, sig_pc, invoked, outfiles,
    \* ---- the harness that applies movingAverage / findPeaks to drawn inputs
    signal, filtered_signal, peaks_in, peaks_out, fn_pc,
    \* ---- ImageProcessor members (lines 14-22)
    image_paths, output_dir, blur_size, contrast_alpha, contrast_beta,
    apply_edge_detection,
    \* ---- batchProcess: its arguments, the positions of its two loops and of
    \*      processAllImages' loop, its local original_output_dir
    blur_sizes, contrast_values, bi, ci, img_k, original_output_dir, img_pc,
    \* ---- the file system under the output root: directories, files
    dirs, written,
    \* ---- history: the cells begun, the cells whose pass returned, the
    \*      number of sweeps, contrast_beta and apply_edge_detection on entry
    started, completed, sweeps, beta0, edge0,
    \* ---- analyzeImages: its locals (183-185), loop position and report
    total_size, min_width, max_width, min_height, max_height, an_i, an_pc, report

fnVars == <<signal, filtered_signal, peaks_in, peaks_out, fn_pc>>
sigVars == <<signal_files, window_size, threshold>>
runVars == <<sig_i, sig_pc, invoked, outfiles>>
paramVars == <<blur_size, contrast_alpha, contrast_beta, apply_edge_detection>>
sweepVars == <<output_dir, blur_sizes, contrast_values, bi, ci, img_k,
               original_output_dir, img_pc, dirs, written, started, completed,
               sweeps, beta0, edge0>>
anVars == <<total_size, min_width, max_width, min_height, max_height, an_i,
            an_pc, report>>
imgVars == <<image_paths, paramVars, sweepVars, anVars>>
signalSide == <<fnVars, sigVars, runVars>>
vars == <<signalSide, imgVars>>

---------------------------------------------------------------------------
(* Bounds of the model                                                     *)
MaxLen == 4
MaxWindow == 4

SampleValues == {0, 1, 2}
WindowSizes == (0 - MaxWindow)..MaxWindow

---------------------------------------------------------------------------
(* Doubles                                                                 *)
Dbl(v) == [n |-> v, d |-> 1]
NaN == [n |-> 0, d |-> 0]
\* IEEE comparisons: every comparison with a NaN is false.
Gt(a, b) == a.d > 0 /\ b.d > 0 /\ a.n * b.d > b.n * a.d
Ge(a, b) == a.d > 0 /\ b.d > 0 /\ a.n * b.d >= b.n * a.d
NumEq(a, b) == a.d > 0 /\ b.d > 0 /\ a.n * b.d = b.n * a.d
\* sum / count in double arithmetic, sum an exact integer: 0.0 / 0 is NaN.
DblDiv(sum, count) == IF count = 0 THEN NaN ELSE [n |-> sum, d |-> count]
Thresholds == {Dbl(0), [n |-> 1, d |-> 2], Dbl(3)}

Max(a, b) == IF a > b THEN a ELSE b
Min(a, b) == IF a < b THEN a ELSE b
\* C++ integer division by 2 truncates toward zero.
Half(w) == IF w >= 0 THEN w \div 2 ELSE 0 - ((0 - w) \div 2)

---------------------------------------------------------------------------
(* movingAverage, lines 260-282                                            *)
RECURSIVE SumRange(_, _, _)
\* the inner loop at 273-276: sum of signal[j] for j = start .. end
SumRange(s, start, end) ==
    IF start > end THEN 0 ELSE s[start + 1] + SumRange(s, start + 1, end)

WindowStart(i, w) == Max(0, i - Half(w))
WindowEnd(len, i, w) == Min(len - 1, i + Half(w))
\* count++ once per iteration of the inner loop
WindowCount(len, i, w) ==
    IF WindowStart(i, w) > WindowEnd(len, i, w) THEN 0
    ELSE WindowEnd(len, i, w) - WindowStart(i, w) + 1

movingAverage(s, w) ==
    [x \in 1..Len(s) |->
        DblDiv(SumRange(s, WindowStart(x - 1, w), WindowEnd(Len(s), x - 1, w)),
               WindowCount(Len(s), x - 1, w))]

---------------------------------------------------------------------------
(* findPeaks, lines 285-297                                                *)
\* size_t is unsigned: signal.size() - 1 wraps.  TLC's integers are 32 bits
\* wide, so the 64-bit width is scaled to SizeBits; no length of the model
\* comes near 2^SizeBits.
SizeBits == 16
SizeSub1(n) == (n - 1) % (2 ^ SizeBits)

\* the condition of 290-291 with >= against the left neighbour: the right
\* end of a plateau would count as a peak
PeakAtGe(s, i, th) ==
    /\ Ge(s[i + 1], s[i])
    /\ Gt(s[i + 1], s[i + 2])
    /\ Gt(s[i + 1], th)

\* the condition at 290-291 for index i
PeakAt(s, i, th) ==
    /\ Gt(s[i + 1], s[i])
    /\ Gt(s[i + 1], s[i + 2])
    /\ Gt(s[i + 1], th)

RECURSIVE PeaksFrom(_, _, _, _)
\* the loop at 289-294 from index i on, with its bound
PeaksFrom(s, th, i, bound) ==
    IF ~(i < bound) THEN <<>>
    ELSE (IF PeakAt(s, i, th) THEN <<i>> ELSE <<>>)
             \o PeaksFrom(s, th, i + 1, bound)

\* Some iteration i (1 <= i < size() - 1, as the unsigned comparison takes
\* it) reads signal[i] with i >= size(): only for size() = 0, where the
\* bound wraps and the first iteration reads signal[1] and signal[0].
LoopReadsOutside(n) ==
    \E i \in 1..Min(SizeSub1(n) - 1, n + 1) : i >= n

\* What a build can do once the loop reads outside the vector: fault, or
\* return whatever indices the garbage it read made into peaks.
UBOutcomes ==
    {[ub |-> TRUE, crashed |-> TRUE, peaks |-> <<>>]}
        \cup {[ub |-> TRUE, crashed |-> FALSE, peaks |-> g] : g \in {<<>>, <<1>>}}

findPeaks(s, th) ==
    IF LoopReadsOutside(Len(s)) THEN UBOutcomes
    ELSE {[ub |-> FALSE, crashed |-> FALSE,
           peaks |-> PeaksFrom(s, th, 1, SizeSub1(Len(s)))]}

---------------------------------------------------------------------------
(* The pure functions applied to drawn inputs                              *)
RECURSIVE SeqsUpTo(_, _)
SeqsUpTo(S, n) ==
    IF n = 0 THEN {<<>>}
    ELSE SeqsUpTo(S, n - 1)
            \cup {Append(q, v) : q \in {r \in SeqsUpTo(S, n - 1) : Len(r) = n - 1}, v \in S}

\* the spec's unimodal bump
Bump == <<0, 0, 1, 5, 1, 0, 0>>
Signals == SeqsUpTo(SampleValues, MaxLen) \cup {Bump}
Lift(s) == [x \in 1..Len(s) |-> Dbl(s[x])]

None == [ub |-> FALSE, crashed |-> FALSE, peaks |-> <<>>]

\* no ImageProcessor is constructed
NoImageProcessor ==
    /\ image_paths = <<>>
    /\ output_dir = <<>>
    /\ blur_size = 0 /\ contrast_alpha = 0 /\ contrast_beta = 0
    /\ apply_edge_detection = FALSE
    /\ blur_sizes = <<>> /\ contrast_values = <<>>
    /\ bi = 0 /\ ci = 0 /\ img_k = 0
    /\ original_output_dir = <<>>
    /\ img_pc = "unused"
    /\ dirs = {} /\ written = {}
    /\ started = <<>> /\ completed = {} /\ sweeps = 0
    /\ beta0 = 0 /\ edge0 = FALSE
    /\ total_size = 0
    /\ min_width = 0 /\ max_width = 0 /\ min_height = 0 /\ max_height = 0
    /\ an_i = 0 /\ an_pc = "unused"
    /\ report = <<>>

\* no signal file is being processed
NoSignalRun ==
    /\ signal_files = <<>>
    /\ sig_i = 0
    /\ sig_pc = "unused"
    /\ invoked = <<>>
    /\ outfiles = <<>>

\* no vector is handed to movingAverage or findPeaks on its own
NoDrawnInput ==
    /\ signal = <<>>
    /\ filtered_signal = <<>>
    /\ peaks_in = <<>>
    /\ peaks_out = None
    /\ fn_pc = "unused"

InitFn ==
    /\ signal \in Signals
    /\ window_size \in WindowSizes
    /\ threshold \in Thresholds
    /\ filtered_signal = <<>>
    /\ peaks_in = <<>>
    /\ peaks_out = None
    /\ fn_pc = "input"
    /\ NoSignalRun
    /\ NoImageProcessor

\* filtered_signal = movingAverage(signal), line 325
CallMovingAverage ==
    /\ fn_pc = "input"
    /\ filtered_signal' = movingAverage(signal, window_size)
    /\ fn_pc' = "filtered"
    /\ UNCHANGED <<signal, peaks_in, peaks_out, sigVars, runVars, imgVars>>

\* peaks = findPeaks(filtered_signal), line 326
CallFindPeaks ==
    /\ fn_pc = "filtered"
    /\ peaks_in' = filtered_signal
    /\ peaks_out' \in findPeaks(filtered_signal, threshold)
    /\ fn_pc' = "peaks"
    /\ UNCHANGED <<signal, filtered_signal, sigVars, runVars, imgVars>>

\* findPeaks applied to an unfiltered vector (it is a public method)
CallFindPeaksRaw ==
    /\ fn_pc = "input"
    /\ peaks_in' = Lift(signal)
    /\ peaks_out' \in findPeaks(Lift(signal), threshold)
    /\ fn_pc' = "peaks"
    /\ UNCHANGED <<signal, filtered_signal, sigVars, runVars, imgVars>>

NextFn == CallMovingAverage \/ CallFindPeaks \/ CallFindPeaksRaw

SpecFn == InitFn /\ [][NextFn]_vars

---------------------------------------------------------------------------
(* processSignal and processAllSignals, lines 299-372                      *)
MaxFiles == 2
MaxLines == 3

\* A line of an input file: text that std::stod rejects, or a number.
TextLine == [kind |-> "text", val |-> 0]
NumLine(v) == [kind |-> "num", val |-> v]
LineChoices == {TextLine, NumLine(1234567)}
\* every file of up to MaxLines lines, and two longer ones: a header and a
\* bump, and a header with an unparseable line between the samples
FileContents ==
    SeqsUpTo(LineChoices, MaxLines)
        \cup {<<TextLine, NumLine(1), NumLine(1234567), NumLine(1)>>,
              <<TextLine, NumLine(1), TextLine, NumLine(3), NumLine(2)>>}

\* std::stod at 316: the value, or an exception the catch (...) swallows
Stod(line) == [ok |-> line.kind = "num", val |-> line.val]

\* 311-322: the first line is read and dropped, every later line that
\* parses is pushed back in order
ParseSignal(lines) ==
    IF Len(lines) = 0 THEN <<>>
    ELSE LET rest == Tail(lines)
             kept == SelectSeq(rest, LAMBDA l : Stod(l).ok)
         IN  [x \in 1..Len(kept) |-> Stod(kept[x]).val]

RECURSIVE Pow10(_)
Pow10(p) == IF p = 0 THEN 1 ELSE 10 * Pow10(p - 1)

\* a / b rounded to the nearest integer, ties to even (a >= 0, b > 0)
RoundHalfEven(a, b) ==
    LET q == a \div b
        r == a % b
    IN  IF 2 * r < b THEN q
        ELSE IF 2 * r > b THEN q + 1
        ELSE IF q % 2 = 0 THEN q ELSE q + 1

RECURSIVE ScaleUp(_, _, _)
\* the least p with n * 10^p / d >= 10^5
ScaleUp(n, d, p) ==
    IF n * Pow10(p) >= 100000 * d THEN p ELSE ScaleUp(n, d, p + 1)

RECURSIVE ScaleDown(_, _, _)
\* the least p with n / (d * 10^p) < 10^6
ScaleDown(n, d, p) ==
    IF n < 1000000 * d * Pow10(p) THEN p ELSE ScaleDown(n, d, p + 1)

\* operator<< of a double at 344: the default stream precision, 6
\* significant digits.  The result is the number the printed text denotes
\* (values >= 0).
Fmt6(a) ==
    IF a.d = 0 THEN NaN
    ELSE IF a.n = 0 THEN Dbl(0)
    ELSE IF a.n >= 1000000 * a.d
         THEN LET p == ScaleDown(a.n, a.d, 1)
              IN  Dbl(RoundHalfEven(a.n, a.d * Pow10(p)) * Pow10(p))
         ELSE LET p == ScaleUp(a.n, a.d, 0)
              IN  [n |-> RoundHalfEven(a.n * Pow10(p), a.d), d |-> Pow10(p)]

IsPeak(peaks, i) == \E k \in 1..Len(peaks) : peaks[k] = i

\* 340-345: the header row, then one row per sample of signal
OutputFile(sig, filt, peaks) ==
    [header |-> "original,filtered,is_peak",
     rows |-> [x \in 1..Len(sig) |->
                 [original |-> Fmt6(Dbl(sig[x])),
                  filtered |-> Fmt6(filt[x]),
                  is_peak |-> IF IsPeak(peaks, x - 1) THEN 1 ELSE 0]]]

Absent == [header |-> "", rows |-> <<>>]
Names == {"a.csv", "b.csv"}

Unopenable(nm) == [name |-> nm, openable |-> FALSE, writable |-> TRUE, lines |-> <<>>]
SignalFiles ==
    {Unopenable(nm) : nm \in Names}
        \cup {[name |-> nm, openable |-> TRUE, writable |-> w, lines |-> ls] :
                 nm \in Names, w \in BOOLEAN, ls \in FileContents}

\* the corpus loadSignalFiles leaves (242-252): distinct paths in
\* traversal order; the file at position x lies in directory x, so two
\* files may share a filename
Corpora == SeqsUpTo(SignalFiles, MaxFiles)

\* the SignalProcessor constructor, 221-240
InitSignal ==
    /\ signal_files \in Corpora
    /\ window_size = 10
    /\ threshold = [n |-> 1, d |-> 2]
    /\ sig_i = 0
    /\ sig_pc = "constructed"
    /\ invoked = <<>>
    /\ outfiles = [nm \in Names |-> Absent]
    /\ NoDrawnInput
    /\ NoImageProcessor

\* setProcessingParameters, 254-257
setProcessingParameters(w, th) ==
    /\ sig_pc = "constructed"
    /\ window_size' = w
    /\ threshold' = th
    /\ sig_pc' = "configured"
    /\ UNCHANGED <<signal_files, sig_i, invoked, outfiles, fnVars, imgVars>>

\* processAllSignals up to its loop, 354-358
processAllSignals ==
    /\ sig_pc \in {"constructed", "configured"}
    /\ sig_i' = 0
    /\ sig_pc' = "loop"
    /\ UNCHANGED <<sigVars, invoked, outfiles, fnVars, imgVars>>

\* one iteration of the loop at 358-365: processSignal(signal_files[i])
processSignal ==
    /\ sig_pc = "loop"
    /\ sig_i < Len(signal_files)
    /\ invoked' = Append(invoked, sig_i)
    /\ LET f == signal_files[sig_i + 1]
           sig == ParseSignal(f.lines)
           filt == movingAverage(sig, window_size)
       IN  IF ~f.openable
           THEN \* 302-305
                /\ sig_i' = sig_i + 1
                /\ UNCHANGED <<sig_pc, outfiles>>
           ELSE \E o \in findPeaks(filt, threshold) :
                  IF o.crashed
                  THEN \* the process dies inside findPeaks
                       /\ sig_pc' = "crashed"
                       /\ UNCHANGED <<sig_i, outfiles>>
                  ELSE /\ sig_i' = sig_i + 1
                       /\ sig_pc' = sig_pc
                       /\ outfiles' =
                            IF f.writable
                            THEN [outfiles EXCEPT ![f.name] = OutputFile(sig, filt, o.peaks)]
                            ELSE outfiles   \* 334-337
    /\ UNCHANGED <<sigVars, fnVars, imgVars>>

\* the loop ends and the totals are reported, 367-371
processAllSignalsEnd ==
    /\ sig_pc = "loop"
    /\ sig_i = Len(signal_files)
    /\ sig_pc' = "done"
    /\ UNCHANGED <<sigVars, sig_i, invoked, outfiles, fnVars, imgVars>>

NextSignal ==
    \/ \E w \in {1, 3}, th \in {[n |-> 1, d |-> 2]} : setProcessingParameters(w, th)
    \/ processAllSignals
    \/ processSignal
    \/ processAllSignalsEnd

SpecSignal == InitSignal /\ [][NextSignal]_vars

---------------------------------------------------------------------------
(* ImageProcessor: processImage, processAllImages, batchProcess, 78-174    *)
(* A path or a name is the sequence of its pieces: "/blur" and "_contrast" *)
(* are one piece each, a number contributes one piece per character.       *)
(* contrast_alpha and the contrast arguments are held in hundredths: 105   *)
(* is the double 1.05.  For every such value from 0.00 to 9.99 the product *)
(* contrast * 10 in double arithmetic truncates to the same integer as the *)
(* exact product.                                                          *)
MaxImages == 2
MaxList == 2
MaxSweeps == 2

OutputRoot == <<"out">>
BlurChoices == {3, 4, 5}
ContrastChoices == {100, 105, 150}

DigitChar(d) == <<"0", "1", "2", "3", "4", "5", "6", "7", "8", "9">>[d + 1]
RECURSIVE Digits(_)
Digits(n) == IF n < 10 THEN <<DigitChar(n)>>
             ELSE Digits(n \div 10) \o <<DigitChar(n % 10)>>
\* std::to_string(int), 149-150
ToString(n) == IF n < 0 THEN <<"-">> \o Digits(0 - n) ELSE Digits(n)

\* static_cast<int>(contrast * 10), 150: truncation toward zero
StaticCastInt10(c) == IF c >= 0 THEN c \div 10 ELSE 0 - ((0 - c) \div 10)

\* "/blur" + to_string(blur) + "_contrast" + to_string(int(contrast*10)), 149-150
ParamDirName(blur, contrast) ==
    <<"/blur">> \o ToString(blur) \o <<"_contrast">>
        \o ToString(StaticCastInt10(contrast))

\* cv::GaussianBlur at 89 rejects a kernel size that is not positive and
\* odd (sigma is 0 there) by throwing cv::Exception
GaussianBlurThrows(blur) == blur <= 0 \/ blur % 2 = 0

\* cv::imwrite at 114 replaces a file already at output_path
Overwrite(files, w) ==
    {x \in files : ~(x.dir = w.dir /\ x.name = w.name)} \cup {w}

ImageNames == {"x.png", "y.png"}
SweepImages ==
    {[name |-> nm, decodable |-> dc, width |-> 1, height |-> 1, size |-> 1] :
        nm \in ImageNames, dc \in BOOLEAN}

\* the ImageProcessor constructor, 25-46; the image at position x of the
\* corpus lies in directory x under the input root (loadImagePaths walks it
\* recursively), so two images may share a filename
ConstructImageProcessor ==
    /\ output_dir = OutputRoot
    /\ blur_size = 5
    /\ contrast_alpha = 150
    /\ contrast_beta = 10
    /\ apply_edge_detection = TRUE
    /\ dirs = {OutputRoot}
    /\ written = {}
    /\ blur_sizes = <<>> /\ contrast_values = <<>>
    /\ bi = 0 /\ ci = 0 /\ img_k = 0
    /\ original_output_dir = <<>>
    /\ started = <<>> /\ completed = {} /\ sweeps = 0
    /\ beta0 = 10 /\ edge0 = TRUE
    /\ total_size = 0
    /\ min_width = 0 /\ max_width = 0 /\ min_height = 0 /\ max_height = 0
    /\ an_i = 0
    /\ report = <<>>

InitSweep ==
    /\ image_paths \in SeqsUpTo(SweepImages, MaxImages)
    /\ ConstructImageProcessor
    /\ img_pc = "constructed"
    /\ an_pc = "unused"
    /\ NoSignalRun
    /\ NoDrawnInput
    /\ window_size = 0
    /\ threshold = Dbl(0)

\* ImageProcessor::setProcessingParameters, 70-76
imageSetProcessingParameters(b, a, beta, edge) ==
    /\ img_pc = "constructed"
    /\ blur_size' = b
    /\ contrast_alpha' = a
    /\ contrast_beta' = beta
    /\ apply_edge_detection' = edge
    /\ img_pc' = "configured"
    /\ UNCHANGED <<image_paths, output_dir, blur_sizes, contrast_values, bi, ci,
                   img_k, original_output_dir, dirs, written, started,
                   completed, sweeps, beta0, edge0, anVars, signalSide>>

\* batchProcess is entered, 144-147: the loops start, or there is no cell
EnterBatch(bs, cs) ==
    /\ blur_sizes' = bs
    /\ contrast_values' = cs
    /\ sweeps' = sweeps + 1
    /\ beta0' = contrast_beta
    /\ edge0' = apply_edge_detection
    /\ IF bs = <<>> \/ cs = <<>>
       THEN bi' = 0 /\ ci' = 0 /\ img_pc' = "returned"
       ELSE bi' = 1 /\ ci' = 1 /\ img_pc' = "cell"
    /\ UNCHANGED <<image_paths, paramVars, output_dir, img_k,
                   original_output_dir, dirs, written, started, completed,
                   anVars, signalSide>>

batchProcess(bs, cs) ==
    /\ img_pc \in {"constructed", "configured"}
    /\ EnterBatch(bs, cs)

\* the caller runs the same sweep once more, after it returned or after it
\* caught the exception the sweep let through
batchProcessAgain ==
    /\ img_pc \in {"returned", "thrown"}
    /\ sweeps < MaxSweeps
    /\ EnterBatch(blur_sizes, contrast_values)

\* one cell up to the loop of processAllImages, 148-168 and 121-125
cellBegin ==
    /\ img_pc = "cell"
    /\ LET blur == blur_sizes[bi]
           contrast == contrast_values[ci]
           param_dir == output_dir \o ParamDirName(blur, contrast)
       IN  /\ dirs' = dirs \cup {param_dir}
           /\ blur_size' = blur
           /\ contrast_alpha' = contrast
           /\ UNCHANGED <<contrast_beta, apply_edge_detection>>
           /\ original_output_dir' = output_dir
           /\ output_dir' = param_dir
    /\ img_k' = 0
    /\ img_pc' = "images"
    /\ started' = Append(started, <<sweeps, bi, ci>>)
    /\ UNCHANGED <<image_paths, blur_sizes, contrast_values, bi, ci, written,
                   completed, sweeps, beta0, edge0, anVars, signalSide>>

\* one iteration of processAllImages' loop, 125-132: processImage, 78-119
processImage ==
    /\ img_pc = "images"
    /\ img_k < Len(image_paths)
    /\ LET im == image_paths[img_k + 1]
       IN  IF ~im.decodable
           THEN \* 82-85
                /\ img_k' = img_k + 1
                /\ UNCHANGED <<img_pc, written>>
           ELSE IF GaussianBlurThrows(blur_size)
           THEN \* the exception leaves processImage, processAllImages and
                \* batchProcess: nothing on the way catches it
                /\ img_pc' = "thrown"
                /\ UNCHANGED <<img_k, written>>
           ELSE /\ written' = Overwrite(written,
                                  [dir |-> output_dir, name |-> im.name,
                                   src |-> img_k, blur |-> blur_size,
                                   alpha |-> contrast_alpha,
                                   beta |-> contrast_beta,
                                   edge |-> apply_edge_detection,
                                   cell |-> <<sweeps, bi, ci>>])
                /\ img_k' = img_k + 1
                /\ UNCHANGED img_pc
    /\ UNCHANGED <<image_paths, paramVars, output_dir, blur_sizes,
                   contrast_values, bi, ci, original_output_dir, dirs, started,
                   completed, sweeps, beta0, edge0, anVars, signalSide>>

\* processAllImages returns, 134-140; the cell ends, 170-171; the loops of
\* 146-147 advance
cellEnd ==
    /\ img_pc = "images"
    /\ img_k = Len(image_paths)
    /\ output_dir' = original_output_dir
    /\ completed' = completed \cup {<<sweeps, bi, ci>>}
    /\ IF ci < Len(contrast_values)
       THEN ci' = ci + 1 /\ bi' = bi /\ img_pc' = "cell"
       ELSE IF bi < Len(blur_sizes)
       THEN ci' = 1 /\ bi' = bi + 1 /\ img_pc' = "cell"
       ELSE UNCHANGED <<bi, ci>> /\ img_pc' = "returned"
    /\ UNCHANGED <<image_paths, paramVars, blur_sizes, contrast_values, img_k,
                   original_output_dir, dirs, written, started, sweeps, beta0,
                   edge0, anVars, signalSide>>

NextSweep ==
    \/ imageSetProcessingParameters(3, 100, 0, FALSE)
    \/ \E bs \in SeqsUpTo(BlurChoices, MaxList),
          cs \in SeqsUpTo(ContrastChoices, MaxList) : batchProcess(bs, cs)
    \/ batchProcessAgain
    \/ cellBegin
    \/ processImage
    \/ cellEnd

SpecSweep == InitSweep /\ [][NextSweep]_vars


---------------------------------------------------------------------------
(* ImageProcessor::analyzeImages, 177-207                                  *)
MaxCorpus == 3
INT_MAX == 2147483647

AnalyzedImages ==
    {[name |-> "x.png", decodable |-> FALSE, width |-> 0, height |-> 0, size |-> sz] :
        sz \in {1, 2}}
        \cup {[name |-> "x.png", decodable |-> TRUE, width |-> w, height |-> h, size |-> 1] :
                 w \in {1, 2}, h \in {1, 2}}

NoReport ==
    [kind |-> "none", count |-> 0, total |-> 0, avg |-> NaN,
     min_width |-> 0, max_width |-> 0, min_height |-> 0, max_height |-> 0]

InitAnalyze ==
    /\ image_paths \in SeqsUpTo(AnalyzedImages, MaxCorpus)
    /\ ConstructImageProcessor
    /\ img_pc = "constructed"
    /\ an_pc = "idle"
    /\ NoSignalRun
    /\ NoDrawnInput
    /\ window_size = 0
    /\ threshold = Dbl(0)

\* 178-185: the empty corpus is reported and nothing else is done;
\* otherwise the locals are set up
analyzeImages ==
    /\ an_pc = "idle"
    /\ IF Len(image_paths) = 0
       THEN /\ report' = <<[NoReport EXCEPT !.kind = "no_images"]>>
            /\ an_pc' = "reported"
            /\ UNCHANGED <<total_size, min_width, max_width, min_height,
                           max_height, an_i>>
       ELSE /\ total_size' = 0
            /\ min_width' = INT_MAX /\ max_width' = 0
            /\ min_height' = INT_MAX /\ max_height' = 0
            /\ an_i' = 0
            /\ an_pc' = "scan"
            /\ UNCHANGED report
    /\ UNCHANGED <<image_paths, paramVars, sweepVars, signalSide>>

\* one iteration of the loop at 187-199
analyzeStep ==
    /\ an_pc = "scan"
    /\ an_i < Len(image_paths)
    /\ LET img == image_paths[an_i + 1]
       IN  /\ total_size' = total_size + img.size
           /\ IF img.decodable
              THEN /\ min_width' = Min(min_width, img.width)
                   /\ max_width' = Max(max_width, img.width)
                   /\ min_height' = Min(min_height, img.height)
                   /\ max_height' = Max(max_height, img.height)
              ELSE UNCHANGED <<min_width, max_width, min_height, max_height>>
    /\ an_i' = an_i + 1
    /\ UNCHANGED <<an_pc, report, image_paths, paramVars, sweepVars, signalSide>>

\* 201-206: the analysis is printed; the average is
\* total_size / (1024.0 * image_paths.size())
analyzeReport ==
    /\ an_pc = "scan"
    /\ an_i = Len(image_paths)
    /\ report' = <<[kind |-> "analysis",
                    count |-> Len(image_paths),
                    total |-> total_size,
                    avg |-> DblDiv(total_size, 1024 * Len(image_paths)),
                    min_width |-> min_width, max_width |-> max_width,
                    min_height |-> min_height, max_height |-> max_height]>>
    /\ an_pc' = "reported"
    /\ UNCHANGED <<total_size, min_width, max_width, min_height, max_height,
                   an_i, image_paths, paramVars, sweepVars, signalSide>>

NextAnalyze == analyzeImages \/ analyzeStep \/ analyzeReport

SpecAnalyze == InitAnalyze /\ [][NextAnalyze]_vars


---------------------------------------------------------------------------
(* Properties of findPeaks and movingAverage, under SpecFn                 *)

\* C5: for every signal of length 0, 1 or 2 and every threshold, findPeaks
\* returns the empty peak set without reading any index outside the signal.
C5_ShortSignalNoPeaks ==
    (fn_pc = "peaks" /\ Len(peaks_in) < 3) =>
        /\ ~peaks_out.ub
        /\ ~peaks_out.crashed
        /\ peaks_out.peaks = <<>>

\* C9: for every signal and every window size setProcessingParameters
\* accepts, movingAverage returns a sequence of the input's length whose
\* value at i is the arithmetic mean over the closed clipped range
\* [max(0, i - w/2), min(len - 1, i + w/2)]; the range contains i, so the
\* divisor is never zero.
C9_MovingAverageIsClippedMean ==
    fn_pc = "filtered" =>
        /\ Len(filtered_signal) = Len(signal)
        /\ \A i \in 0..(Len(signal) - 1) :
              LET h == IF window_size >= 0 THEN window_size \div 2
                       ELSE 0 - ((0 - window_size) \div 2)
                  lo == IF i - h > 0 THEN i - h ELSE 0
                  hi == IF i + h < Len(signal) - 1 THEN i + h ELSE Len(signal) - 1
                  out == filtered_signal[i + 1]
              IN  /\ lo <= i /\ i <= hi
                  /\ out.d # 0
                  /\ out.n * (hi - lo + 1) = SumRange(signal, lo, hi) * out.d

\* C10: for every filtered signal of length n >= 3 and every threshold,
\* findPeaks returns exactly the indices i, 1 <= i <= n - 2, with
\* filtered[i] > filtered[i-1], filtered[i] > filtered[i+1] and
\* filtered[i] > threshold, in increasing order; 0 and n - 1 are never
\* returned, and no sample equal to a neighbour (a plateau, a flat signal)
\* is a peak.
C10_FindPeaksExact ==
    (fn_pc = "peaks" /\ Len(peaks_in) >= 3) =>
        LET n == Len(peaks_in)
            P == peaks_out.peaks
            at(i) == peaks_in[i + 1]
            Expected == {i \in 1..(n - 2) :
                            /\ Gt(at(i), at(i - 1))
                            /\ Gt(at(i), at(i + 1))
                            /\ Gt(at(i), threshold)}
        IN  /\ ~peaks_out.ub /\ ~peaks_out.crashed
            /\ {P[k] : k \in 1..Len(P)} = Expected
            /\ \A k \in 1..(Len(P) - 1) : P[k] < P[k + 1]
            /\ \A k \in 1..Len(P) :
                  /\ P[k] # 0 /\ P[k] # n - 1
                  /\ ~NumEq(at(P[k]), at(P[k] - 1))
                  /\ ~NumEq(at(P[k]), at(P[k] + 1))
            /\ (\A i, j \in 0..(n - 1) : NumEq(at(i), at(j))) => P = <<>>

\* the spec's bump, window 1, threshold 0.5: the peak set is {3}
C10_BumpWitness ==
    /\ fn_pc = "peaks"
    /\ window_size = 1
    /\ threshold = [n |-> 1, d |-> 2]
    /\ peaks_in = Lift(Bump)
    /\ peaks_in = filtered_signal
    /\ peaks_out.peaks = <<3>>

---------------------------------------------------------------------------
(* Properties of processAllSignals and processSignal, under SpecSignal     *)

\* C3: a failure on one signal file never stops the batch: processSignal
\* is invoked, in enumeration order, for every file of the corpus.
C3_BatchNeverStops ==
    /\ \A k \in 1..Len(invoked) : invoked[k] = k - 1
    /\ sig_pc \in {"done", "crashed"} => Len(invoked) = Len(signal_files)

\* C7: for an input file whose first line is a header and of whose later
\* lines N parse as numbers, the output file has the header row and
\* exactly N data rows, and the k-th row's original value is the k-th
\* parsed value, in source order.
C7_RoundTrip ==
    Len(invoked) > 0 =>
        LET f == signal_files[invoked[Len(invoked)] + 1]
            nums == SelectSeq(Tail(f.lines), LAMBDA l : l.kind = "num")
            out == outfiles[f.name]
        IN  (f.openable /\ f.writable /\ Len(f.lines) > 0 /\ f.lines[1] = TextLine) =>
                /\ out.header = "original,filtered,is_peak"
                /\ Len(out.rows) = Len(nums)
                /\ \A k \in 1..Len(nums) :
                      NumEq(out.rows[k].original, Dbl(nums[k].val))

---------------------------------------------------------------------------
(* Properties of batchProcess, under SpecSweep                             *)

CellDir(i, j) == OutputRoot \o ParamDirName(blur_sizes[i], contrast_values[j])
SamePair(i1, j1, i2, j2) ==
    blur_sizes[i1] = blur_sizes[i2] /\ contrast_values[j1] = contrast_values[j2]
Decodable == {k \in 1..Len(image_paths) : image_paths[k].decodable}

\* C1: the names built for two distinct (blur, contrast) pairs differ, so
\* no cell's directory receives files written by another pair's cell.
C1_CellNamesCollisionFree ==
    /\ \A i1, i2 \in 1..Len(blur_sizes), j1, j2 \in 1..Len(contrast_values) :
          ~SamePair(i1, j1, i2, j2) =>
              ParamDirName(blur_sizes[i1], contrast_values[j1])
                  # ParamDirName(blur_sizes[i2], contrast_values[j2])
    /\ \A w \in written :
          img_pc = "images" /\ w.dir = output_dir =>
              w.blur = blur_size /\ w.alpha = contrast_alpha

\* C2: when a file fails inside one cell, every other cell of the product
\* still runs its full corpus pass: once batchProcess is left, every cell
\* whose own blur size the blur step accepts has completed its pass.
C2_OtherCellsStillRun ==
    img_pc \in {"returned", "thrown"} =>
        \A i \in 1..Len(blur_sizes), j \in 1..Len(contrast_values) :
            ~GaussianBlurThrows(blur_sizes[i]) => <<sweeps, i, j>> \in completed

\* C4: after a sweep completes there is one directory per pair, distinct
\* pairs have distinct directories, and each directory holds exactly one
\* processed file per decodable image of the corpus.
C4_OneFilePerImagePerCell ==
    img_pc = "returned" =>
        /\ \A i1, i2 \in 1..Len(blur_sizes), j1, j2 \in 1..Len(contrast_values) :
              ~SamePair(i1, j1, i2, j2) => CellDir(i1, j1) # CellDir(i2, j2)
        /\ \A i \in 1..Len(blur_sizes), j \in 1..Len(contrast_values) :
              /\ CellDir(i, j) \in dirs
              /\ Cardinality({w \in written : w.dir = CellDir(i, j)})
                    = Cardinality(Decodable)

\* C8: the cells are visited blur-major then contrast-minor; a cell's
\* directory is a direct child of the base output root; every file written
\* in the cell's pass goes there; contrast_beta and apply_edge_detection
\* keep the values they had before the sweep; and once the cell's pass is
\* over the output target is the base output root again.
C8_ScopedRedirection ==
    /\ \A k \in 1..Len(started) :
          LET before == {m \in 1..(k - 1) : started[m][1] = started[k][1]}
          IN  Cardinality(before) + 1
                = (started[k][2] - 1) * Len(contrast_values) + started[k][3]
    /\ img_pc = "images" =>
          /\ output_dir = CellDir(bi, ci)
          /\ output_dir \in dirs
          /\ blur_size = blur_sizes[bi]
          /\ contrast_alpha = contrast_values[ci]
    /\ \A w \in written : w.dir = CellDir(w.cell[2], w.cell[3])
    /\ sweeps > 0 => contrast_beta = beta0 /\ apply_edge_detection = edge0
    /\ img_pc \in {"cell", "returned", "thrown"} => output_dir = OutputRoot

---------------------------------------------------------------------------
(* Properties of analyzeImages, under SpecAnalyze                          *)

\* C6: on a corpus with no decodable image (empty, or every file failing
\* to decode) analyzeImages reports "no images" and never divides by zero;
\* files that fail to decode never corrupt the reported width and height
\* ranges, which are those of the decodable images.
C6_NoDecodableMeansNoImages ==
    an_pc = "reported" =>
        LET r == report[1]
        IN  /\ Decodable = {} => r.kind = "no_images"
            /\ r.kind = "analysis" =>
                  /\ r.avg.d # 0
                  /\ \E k \in Decodable : image_paths[k].width = r.min_width
                  /\ \E k \in Decodable : image_paths[k].width = r.max_width
                  /\ \E k \in Decodable : image_paths[k].height = r.min_height
                  /\ \E k \in Decodable : image_paths[k].height = r.max_height
                  /\ \A k \in Decodable :
                        /\ r.min_width <= image_paths[k].width
                        /\ image_paths[k].width <= r.max_width
                        /\ r.min_height <= image_paths[k].height
                        /\ image_paths[k].height <= r.max_height

===========================================================================
